---- MODULE Spec2Model ----
(***************************************************************************)
(* State-machine model of the PdfEditor component of FileForge             *)
(* (src/src/components/pdf-editor.tsx): the page list `pages`, the         *)
(* long-lived pdf-lib document `pdfDoc`, the busy flags, the crop dialog   *)
(* and the asynchronous load / save / render continuations.                *)
(*                                                                         *)
(* Conventions                                                             *)
(*   - a nullable value is a sequence: <<>> is null/undefined, <<v>> is v; *)
(*   - positions in `pages` are 1-based here (index k in the source is     *)
(*     position k+1); PagePreview.id keeps the source's 0-based value;     *)
(*   - `toast` and `output` hold what the LAST step emitted (notification, *)
(*     downloaded document); every step overwrites both.                   *)
(***************************************************************************)
EXTENDS Integers, Sequences, FiniteSets, Bags, TLC

\* ------------------------------------------------------------------ bounds
MaxPages == 3        \* pages of the largest source document
MaxEdits == 1        \* pages rotated, crop dialogs opened and crop dialogs
                     \* dismissed during their rendering, in one run
MaxLoads == 3        \* files dropped in one run of SpecLoadRace

\* ------------------------------------------------------- the outside world
\* Source files the user can drop.  File 1 has MaxPages pages, file 2 has a
\* single page, file 3 cannot be parsed (corrupt or password-protected),
\* file 4 parses to a document without pages.
Files == 1 .. 4

\* The three-page sources of the walk-through scenario: one file for every
\* combination of /Rotate values of its three pages.
ScenarioFiles == 5 .. 68

Parses(f) == f # 3

PageCount(f) ==
  IF f = 1 THEN MaxPages
  ELSE IF f = 2 THEN 1
  ELSE IF f \in ScenarioFiles THEN 3
  ELSE 0

\* Size (points) and /Rotate of source page i (0-based) of file f.
SrcWidth(f, i) == 200 + 100 * (i % 2)
SrcHeight(f, i) == 400
SrcRotation(f, i) ==
  IF f \in ScenarioFiles THEN (((f - 5) \div (4 ^ i)) % 4) * 90
  ELSE IF f = 2 THEN 90
  ELSE (i * 270) % 360

Null == <<>>
Some(v) == <<v>>
Val(n) == n[1]

\* ------------------------------------------------------------------- state
VARIABLES
  file,                   \* useState<File|null>: 0 is null
  pdfDoc,                 \* useState<PDFDocument|null>
  pages,                  \* useState<PagePreview[]>
  isProcessing,
  isLoadingPdf,
  isCropping,
  croppingPageInfo,
  completedCrop,
  cropError,
  isRenderingCropPreview,
  loading,                \* loadPdf calls suspended at their await
  saving,                 \* saveChanges call suspended at its awaits
  rendering,              \* openCropDialog calls suspended at the render
  previewing,             \* previewSelectedPage call suspended at the render
  nAccepted,              \* history: number of files accepted so far
  nEdits,                 \* history: pages rotated, crop dialogs opened and
                          \* crop dialogs dismissed during their rendering
  hasPageNumberTag,       \* does pdf-lib's ref.tag carry a pageNumber?
  removedIds,             \* history: ids deleted since the last load
  toast,                  \* last notification ("" when the step showed none)
  output                  \* document downloaded by the last step, or Null

vars == << file, pdfDoc, pages, isProcessing, isLoadingPdf, isCropping,
           croppingPageInfo, completedCrop, cropError, isRenderingCropPreview,
           loading, saving, rendering, previewing, nAccepted, nEdits,
           hasPageNumberTag, removedIds, toast, output >>

cropVars == << isCropping, croppingPageInfo, completedCrop, cropError,
               isRenderingCropPreview, rendering >>

\* ----------------------------------------------------------------- helpers
Range(s) == { s[k] : k \in DOMAIN s }

RECURSIVE SelectSeqIdx(_, _, _)
\* s.filter((_, index) => Keep(index)), positions from k upwards
SelectSeqIdx(s, keep, k) ==
  IF k > Len(s) THEN <<>>
  ELSE IF k \in keep THEN <<s[k]>> \o SelectSeqIdx(s, keep, k + 1)
       ELSE SelectSeqIdx(s, keep, k + 1)

\* JavaScript's % : the sign of the result is the sign of the dividend.
JsRem(a, n) == IF a >= 0 THEN a % n ELSE 0 - ((0 - a) % n)

Ids(ps) == { ps[k].id : k \in DOMAIN ps }

\* getSelectedCurrentIndices: positions of the selected pages, ascending.
getSelectedCurrentIndices(ps) == { k \in DOMAIN ps : ps[k].selected }

\* getSelectedOriginalIndices
getSelectedOriginalIndices(ps) == { ps[k].id : k \in getSelectedCurrentIndices(ps) }

areAnyPagesSelected == getSelectedOriginalIndices(pages) # {}
isSinglePageSelected == Cardinality(getSelectedOriginalIndices(pages)) = 1

\* Variant: a selection check that only turns an empty selection away.
NotExactlyOneSelectedOnlyEmpty(ps) == Cardinality(getSelectedCurrentIndices(ps)) = 0

\* `selectedCurrentIndices.length !== 1` of openCropDialog and
\* previewSelectedPage.
NotExactlyOneSelected(ps) == Cardinality(getSelectedCurrentIndices(ps)) # 1

\* The editing panel is rendered at all.
PanelShown == pdfDoc # Null /\ Len(pages) > 0 /\ ~isLoadingPdf

\* Variant: controls that stay enabled while the crop dialog is open.
BusyNotCropping == isProcessing \/ isLoadingPdf

\* `disabled={isProcessing || isLoadingPdf || isCropping}` of the controls.
Busy == isProcessing \/ isLoadingPdf \/ isCropping

\* Variant: a Save button that only looks at the busy flags.
SaveEnabledNoLength ==
  pdfDoc # Null /\ ~(isProcessing \/ isLoadingPdf \/ isCropping)

\* The Save button is rendered (inside the panel) and not disabled.
SaveEnabled ==
  /\ PanelShown
  /\ ~(isProcessing \/ isLoadingPdf \/ pdfDoc = Null \/ Len(pages) = 0 \/ isCropping)

\* findIndex over pdfDoc.getPageIndices() of
\*   (page.ref.tag?.pageNumber ?? 0) - 1 === originalIndex ; 0 is "not found"
\* (the source's -1).
PageIndexInDoc(docPages, originalIndex) ==
  LET hits == { k \in DOMAIN docPages : docPages[k].pageNumber - 1 = originalIndex }
  IN IF hits = {} THEN 0 ELSE CHOOSE k \in hits : \A j \in hits : k <= j

\* ------------------------------------------------------------------- Init
Init ==
  /\ file = 0
  /\ pdfDoc = Null
  /\ pages = <<>>
  /\ isProcessing = FALSE
  /\ isLoadingPdf = FALSE
  /\ isCropping = FALSE
  /\ croppingPageInfo = Null
  /\ completedCrop = Null
  /\ cropError = FALSE
  /\ isRenderingCropPreview = FALSE
  /\ loading = {}
  /\ saving = Null
  /\ rendering = {}
  /\ previewing = Null
  /\ nAccepted = 0
  /\ nEdits = 0
  /\ hasPageNumberTag \in BOOLEAN
  /\ removedIds = {}
  /\ toast = ""
  /\ output = Null

\* ------------------------------------------------------------------- load
\* handleFileAccepted -> setFile -> effect -> loadPdf up to its first await.
handleFileAccepted(f) ==
  /\ f # file
  /\ file' = f
  /\ isLoadingPdf' = TRUE
  /\ pages' = <<>>
  /\ pdfDoc' = Null
  /\ loading' = loading \cup { [file |-> f, n |-> nAccepted + 1] }
  /\ nAccepted' = nAccepted + 1
  /\ removedIds' = {}
  /\ toast' = ""
  /\ output' = Null
  /\ UNCHANGED << isProcessing, cropVars, saving, previewing, nEdits, hasPageNumberTag >>

\* The pdf-lib document PDFDocument.load returns for file f.
LoadedDoc(f) ==
  [ src |-> f,
    pages |-> [ k \in 1 .. PageCount(f) |->
                 [ pageNumber |-> IF hasPageNumberTag THEN k ELSE 0,
                   rotation |-> SrcRotation(f, k - 1),
                   cropBox |-> Null ] ] ]

\* Variant: the loop stores a constant instead of `i`.
InitialPagesSameId(f) ==
  [ k \in 1 .. PageCount(f) |->
     [ id |-> 0,
       selected |-> FALSE,
       width |-> SrcWidth(f, k - 1),
       height |-> SrcHeight(f, k - 1),
       rotation |-> SrcRotation(f, k - 1),
       cropBox |-> Null ] ]

\* Variant: every page starts upright, whatever its /Rotate is.
InitialPagesUpright(f) ==
  [ k \in 1 .. PageCount(f) |->
     [ id |-> k - 1,
       selected |-> FALSE,
       width |-> SrcWidth(f, k - 1),
       height |-> SrcHeight(f, k - 1),
       rotation |-> 0,
       cropBox |-> Null ] ]

\* initialPages built by the loop of loadPdf.
InitialPages(f) ==
  [ k \in 1 .. PageCount(f) |->
     [ id |-> k - 1,
       selected |-> FALSE,
       width |-> SrcWidth(f, k - 1),
       height |-> SrcHeight(f, k - 1),
       rotation |-> SrcRotation(f, k - 1),
       cropBox |-> Null ] ]

\* loadPdf after its awaits: success path, or the catch block.
loadPdf(t) ==
  /\ t \in loading
  /\ loading' = loading \ {t}
  /\ isLoadingPdf' = FALSE
  /\ output' = Null
  /\ IF Parses(t.file)
       THEN /\ pdfDoc' = Some(LoadedDoc(t.file))
            /\ pages' = InitialPages(t.file)
            /\ removedIds' = {}
            /\ toast' = ""
            /\ UNCHANGED file
       ELSE \* toast; setFile(null); the [file] effect then clears the rest
            /\ toast' = "Failed to load PDF"
            /\ file' = 0
            /\ IF file # 0
                 THEN pdfDoc' = Null /\ pages' = <<>> /\ removedIds' = {}
                 ELSE UNCHANGED << pdfDoc, pages, removedIds >>
  /\ UNCHANGED << isProcessing, cropVars, saving, previewing, nAccepted,
                  nEdits, hasPageNumberTag >>

\* -------------------------------------------------------------- selection
togglePageSelection(index) ==
  /\ PanelShown /\ ~Busy
  /\ index \in DOMAIN pages
  /\ pages' = [ i \in DOMAIN pages |->
                  IF i = index
                    THEN [ pages[i] EXCEPT !.selected = ~pages[i].selected ]
                    ELSE pages[i] ]
  /\ toast' = ""
  /\ output' = Null
  /\ UNCHANGED << file, pdfDoc, isProcessing, isLoadingPdf, cropVars, loading,
                  saving, previewing, nAccepted, nEdits, hasPageNumberTag, removedIds >>

\* The "Select All" checkbox shows `every page selected` and hands its
\* negation to selectAllPages.
selectAllPages(select) ==
  /\ PanelShown /\ ~Busy
  /\ select = ~(\A k \in DOMAIN pages : pages[k].selected)
  /\ pages' = [ i \in DOMAIN pages |-> [ pages[i] EXCEPT !.selected = select ] ]
  /\ toast' = ""
  /\ output' = Null
  /\ UNCHANGED << file, pdfDoc, isProcessing, isLoadingPdf, cropVars, loading,
                  saving, previewing, nAccepted, nEdits, hasPageNumberTag, removedIds >>

\* ------------------------------------------------------------------- move
\* Variant: the target slot is overwritten, the source slot is not.
MovedPagesOverwrite(ps, index, direction) ==
  IF (direction = "left" /\ index = 1) \/ (direction = "right" /\ index = Len(ps))
    THEN ps
    ELSE LET targetIndex == IF direction = "left" THEN index - 1 ELSE index + 1
         IN [ i \in DOMAIN ps |-> IF i = targetIndex THEN ps[index] ELSE ps[i] ]

\* Variant: the pages swap, their rotations stay with the positions.
MovedPagesRotationStays(ps, index, direction) ==
  IF (direction = "left" /\ index = 1) \/ (direction = "right" /\ index = Len(ps))
    THEN ps
    ELSE LET targetIndex == IF direction = "left" THEN index - 1 ELSE index + 1
         IN [ i \in DOMAIN ps |->
                IF i = index
                  THEN [ ps[targetIndex] EXCEPT !.rotation = ps[index].rotation ]
                ELSE IF i = targetIndex
                  THEN [ ps[index] EXCEPT !.rotation = ps[targetIndex].rotation ]
                ELSE ps[i] ]

\* The array movePage hands to setPages.
MovedPages(ps, index, direction) ==
  IF (direction = "left" /\ index = 1) \/ (direction = "right" /\ index = Len(ps))
    THEN ps
    ELSE LET targetIndex == IF direction = "left" THEN index - 1 ELSE index + 1
         IN [ i \in DOMAIN ps |->
                IF i = index THEN ps[targetIndex]
                ELSE IF i = targetIndex THEN ps[index]
                ELSE ps[i] ]

\* Variant: arrow buttons that stay enabled while the crop dialog is open.
movePageWhileCropping(index, direction) ==
  /\ PanelShown /\ ~BusyNotCropping
  /\ index \in DOMAIN pages
  /\ direction \in {"left", "right"}
  /\ ~(direction = "left" /\ index = 1)
  /\ ~(direction = "right" /\ index = Len(pages))
  /\ pages' = MovedPages(pages, index, direction)
  /\ toast' = ""
  /\ output' = Null
  /\ UNCHANGED << file, pdfDoc, isProcessing, isLoadingPdf, cropVars, loading,
                  saving, previewing, nAccepted, nEdits, hasPageNumberTag, removedIds >>

\* The arrow buttons: disabled at the boundary they point to and while busy.
movePage(index, direction) ==
  /\ PanelShown /\ ~Busy
  /\ index \in DOMAIN pages
  /\ direction \in {"left", "right"}
  /\ ~(direction = "left" /\ index = 1)
  /\ ~(direction = "right" /\ index = Len(pages))
  /\ pages' = MovedPages(pages, index, direction)
  /\ toast' = ""
  /\ output' = Null
  /\ UNCHANGED << file, pdfDoc, isProcessing, isLoadingPdf, cropVars, loading,
                  saving, previewing, nAccepted, nEdits, hasPageNumberTag, removedIds >>

\* ----------------------------------------------------------------- delete
RECURSIVE SortDesc(_)
\* [...].sort((a, b) => b - a)
SortDesc(S) ==
  IF S = {} THEN <<>>
  ELSE LET m == CHOOSE x \in S : \A y \in S : y <= x
       IN <<m>> \o SortDesc(S \ {m})

RemoveAt(s, k) == SubSeq(s, 1, k - 1) \o SubSeq(s, k + 1, Len(s))

RECURSIVE RemovePagesFromDoc(_, _)
\* originalIndicesToRemove.forEach(...): look the page up afresh, removePage
\* when found, warn and go on when not.
RemovePagesFromDoc(docPages, originalIndicesToRemove) ==
  IF originalIndicesToRemove = <<>> THEN docPages
  ELSE LET pageIndexInDoc == PageIndexInDoc(docPages, Head(originalIndicesToRemove))
       IN RemovePagesFromDoc(
            IF pageIndexInDoc # 0 THEN RemoveAt(docPages, pageIndexInDoc) ELSE docPages,
            Tail(originalIndicesToRemove))

\* Variant: only the first of the selected pages is filtered out.
UpdatedPagesFirstOnly(ps) ==
  LET first == CHOOSE k \in getSelectedCurrentIndices(ps) :
                 \A j \in getSelectedCurrentIndices(ps) : k <= j
      kept == SelectSeqIdx(ps, DOMAIN ps \ {first}, 1)
  IN [ i \in DOMAIN kept |-> [ kept[i] EXCEPT !.selected = FALSE ] ]

\* Variant: the pages are deselected but none is filtered out.
UpdatedPagesDeselectOnly(ps) ==
  [ i \in DOMAIN ps |-> [ ps[i] EXCEPT !.selected = FALSE ] ]

\* Variant: the filter compares page.id with the selected positions.
UpdatedPagesById(ps) ==
  LET keep == { k \in DOMAIN ps : ps[k].id + 1 \notin getSelectedCurrentIndices(ps) }
      kept == SelectSeqIdx(ps, keep, 1)
  IN [ i \in DOMAIN kept |-> [ kept[i] EXCEPT !.selected = FALSE ] ]

\* pages.filter((_, index) => !selectedCurrentIndices.includes(index))
\*      .map(page => ({ ...page, selected: false }))
UpdatedPages(ps) ==
  LET kept == SelectSeqIdx(ps, DOMAIN ps \ getSelectedCurrentIndices(ps), 1)
  IN [ i \in DOMAIN kept |-> [ kept[i] EXCEPT !.selected = FALSE ] ]

\* Variant: no check against deleting every page.
DeleteResultNoAllCheck(ps, doc) ==
  LET selectedCurrentIndices == getSelectedCurrentIndices(ps) IN
  IF doc = Null
    THEN [ pages |-> ps, pdfDoc |-> doc, toast |-> "", removed |-> {} ]
  ELSE IF selectedCurrentIndices = {}
    THEN [ pages |-> ps, pdfDoc |-> doc, removed |-> {},
           toast |-> "No pages selected for deletion." ]
  ELSE [ pages |-> UpdatedPages(ps),
         pdfDoc |-> Some([ Val(doc) EXCEPT !.pages =
                       RemovePagesFromDoc(@, SortDesc(getSelectedOriginalIndices(ps))) ]),
         removed |-> getSelectedOriginalIndices(ps),
         toast |-> "page(s) deleted." ]

\* Everything deleteSelectedPages does to (pages, pdfDoc), and its toast.
DeleteResult(ps, doc) ==
  LET selectedCurrentIndices == getSelectedCurrentIndices(ps) IN
  IF doc = Null
    THEN [ pages |-> ps, pdfDoc |-> doc, toast |-> "", removed |-> {} ]
  ELSE IF selectedCurrentIndices = {}
    THEN [ pages |-> ps, pdfDoc |-> doc, removed |-> {},
           toast |-> "No pages selected for deletion." ]
  ELSE IF Cardinality(selectedCurrentIndices) = Len(ps)
    THEN [ pages |-> ps, pdfDoc |-> doc, removed |-> {},
           toast |-> "Cannot delete all pages." ]
  ELSE [ pages |-> UpdatedPages(ps),
         pdfDoc |-> Some([ Val(doc) EXCEPT !.pages =
                       RemovePagesFromDoc(@, SortDesc(getSelectedOriginalIndices(ps))) ]),
         removed |-> getSelectedOriginalIndices(ps),
         toast |-> "page(s) deleted." ]

\* The handler deleteSelectedPages, run from the idle panel whatever the
\* selection is.
deleteSelectedPagesCalled ==
  /\ PanelShown /\ ~Busy
  /\ LET r == DeleteResult(pages, pdfDoc)
     IN /\ pages' = r.pages
        /\ pdfDoc' = r.pdfDoc
        /\ toast' = r.toast
        /\ removedIds' = removedIds \cup r.removed
  /\ output' = Null
  /\ UNCHANGED << file, isProcessing, isLoadingPdf, cropVars, loading, saving,
                  previewing, nAccepted, nEdits, hasPageNumberTag >>

\* The Delete button (and its confirmation): enabled with a selection, idle.
deleteSelectedPages == areAnyPagesSelected /\ deleteSelectedPagesCalled

\* ----------------------------------------------------------------- rotate
\* Variant: the sum is stored without the % 360.
NewRotationNoWrap(currentRotation, angle) == currentRotation + angle

\* const newRotation = (currentRotation + angle) % 360;
NewRotation(currentRotation, angle) == JsRem(currentRotation + angle, 360)

RECURSIVE RotateEach(_, _, _, _)
\* selectedCurrentIndices.forEach(index => ...) over the ascending indices;
\* st carries updatedPagesState and the pages of pdfDoc.
RotateEach(indices, ps, st, angle) ==
  IF indices = <<>> THEN st
  ELSE LET index == Head(indices)
           originalIndex == ps[index].id
           pageIndexInDoc == PageIndexInDoc(st.docPages, originalIndex)
       IN IF pageIndexInDoc = 0
            THEN RotateEach(Tail(indices), ps, st, angle)      \* skip
            ELSE LET currentRotation == st.docPages[pageIndexInDoc].rotation
                     newRotation == NewRotation(currentRotation, angle)
                 IN RotateEach(Tail(indices), ps,
                      [ docPages |-> [ st.docPages EXCEPT
                                         ![pageIndexInDoc].rotation = newRotation ],
                        pages |-> [ st.pages EXCEPT
                                      ![index].rotation = newRotation,
                                      ![index].selected = FALSE ] ],
                      angle)

RECURSIVE SortAsc(_)
SortAsc(S) ==
  IF S = {} THEN <<>>
  ELSE LET m == CHOOSE x \in S : \A y \in S : x <= y
       IN <<m>> \o SortAsc(S \ {m})

\* Everything rotateSelectedPages(angle) does to (pages, pdfDoc), and its toast.
RotateResult(ps, doc, angle) ==
  LET selectedCurrentIndices == getSelectedCurrentIndices(ps) IN
  IF doc = Null
    THEN [ pages |-> ps, pdfDoc |-> doc, toast |-> "" ]
  ELSE IF selectedCurrentIndices = {}
    THEN [ pages |-> ps, pdfDoc |-> doc, toast |-> "No pages selected for rotation." ]
  ELSE LET st == RotateEach(SortAsc(selectedCurrentIndices), ps,
                            [ docPages |-> Val(doc).pages, pages |-> ps ], angle)
       IN [ pages |-> st.pages,
            pdfDoc |-> Some([ Val(doc) EXCEPT !.pages = st.docPages ]),
            toast |-> "Selected page(s) rotated" ]

\* The Rotate button: onClick={() => rotateSelectedPages(90)}.
RotateButtonAngle == 90

\* The handler rotateSelectedPages, run from the idle panel whatever the
\* selection is.
rotateSelectedPagesCalled(angle) ==
  /\ PanelShown /\ ~Busy
  /\ LET r == RotateResult(pages, pdfDoc, angle)
     IN /\ pages' = r.pages
        /\ pdfDoc' = r.pdfDoc
        /\ toast' = r.toast
  /\ nEdits' = nEdits + Cardinality(getSelectedCurrentIndices(pages))
  /\ output' = Null
  /\ UNCHANGED << file, isProcessing, isLoadingPdf, cropVars, loading, saving,
                  previewing, nAccepted, hasPageNumberTag, removedIds >>

\* The Rotate button: enabled with a selection, idle.
rotateSelectedPages(angle) == areAnyPagesSelected /\ rotateSelectedPagesCalled(angle)

\* ------------------------------------------------------------------- save
\* newPdfDoc.copyPages(originalPdfDoc, [originalIndex]): the copy starts as
\* the pristine source page.
CopyPage(f, originalIndex) ==
  [ file |-> f,
    srcIndex |-> originalIndex,
    rotation |-> SrcRotation(f, originalIndex),
    cropBox |-> Null ]

\* Variant: the copied page keeps the rotation of the source page.
OutputPageNoRotation(f, pageInfo) ==
  LET copiedPage == CopyPage(f, pageInfo.id)
  IN IF pageInfo.cropBox # Null
       THEN [ copiedPage EXCEPT !.cropBox = pageInfo.cropBox ]
       ELSE copiedPage

\* One iteration of `for (const pageInfo of pages)`.
OutputPage(f, pageInfo) ==
  LET copiedPage == CopyPage(f, pageInfo.id)
      rotated == [ copiedPage EXCEPT !.rotation = pageInfo.rotation ]
  IN IF pageInfo.cropBox # Null
       THEN [ rotated EXCEPT !.cropBox = pageInfo.cropBox ]
       ELSE rotated

\* Variant: the pages come out in the order of the source, as a document
\* that was only edited in place would have them.
MaterializeInSourceOrder(f, ps) ==
  [ k \in DOMAIN ps |->
      OutputPage(f, ps[CHOOSE j \in DOMAIN ps :
                         Cardinality({ i \in DOMAIN ps : ps[i].id < ps[j].id }) = k - 1]) ]

\* The pages of newPdfDoc after the loop, in order of addition.
Materialize(f, ps) == [ k \in DOMAIN ps |-> OutputPage(f, ps[k]) ]

\* PDFDocument.load of the file succeeds and copyPages finds every index.
CanMaterialize(f, ps) ==
  /\ Parses(f)
  /\ \A k \in DOMAIN ps : ps[k].id < PageCount(f)

\* The Save button, up to the first await: `pages` and `file` are the ones
\* of the render the click happened in.
saveChanges ==
  /\ SaveEnabled
  /\ pdfDoc # Null /\ file # 0
  /\ ~isCropping
  /\ isProcessing' = TRUE
  /\ saving' = Some([ file |-> file, pages |-> pages ])
  /\ toast' = ""
  /\ output' = Null
  /\ UNCHANGED << file, pdfDoc, pages, isLoadingPdf, cropVars, loading,
                  previewing, nAccepted, nEdits, hasPageNumberTag, removedIds >>

\* Does the source that saveChanges parses have the page of a descriptor?
InSource(f, pageInfo) == pageInfo.id < PageCount(f)

\* The descriptors of ps whose page file f has, in order.
PagesInSource(f, ps) == SelectSeqIdx(ps, { k \in DOMAIN ps : InSource(f, ps[k]) }, 1)

\* Variant: a loop that skips the pages the source does not have and
\* serializes whatever is left.
saveChangesDoneSkipsMissing(collaboratorOk) ==
  /\ saving # Null
  /\ LET t == Val(saving)
     IN IF collaboratorOk /\ Parses(t.file)
          THEN /\ output' = Some([ pages |-> Materialize(t.file, PagesInSource(t.file, t.pages)),
                                   descriptors |-> PagesInSource(t.file, t.pages) ])
               /\ toast' = "Edited PDF saved successfully."
          ELSE /\ output' = Null
               /\ toast' = "Failed to save changes."
  /\ saving' = Null
  /\ isProcessing' = FALSE
  /\ UNCHANGED << file, pdfDoc, pages, isLoadingPdf, cropVars, loading,
                  previewing, nAccepted, nEdits, hasPageNumberTag, removedIds >>

\* saveChanges after its awaits: download and success toast, or the catch
\* block; `finally` clears isProcessing.
\* Variant: a save whose failure path leaves the busy flag set (no
\* finally block).
saveChangesDoneNoFinally(collaboratorOk) ==
  /\ saving # Null
  /\ LET t == Val(saving)
     IN IF collaboratorOk /\ CanMaterialize(t.file, t.pages)
          THEN /\ output' = Some([ pages |-> Materialize(t.file, t.pages),
                                   descriptors |-> t.pages ])
               /\ toast' = "Edited PDF saved successfully."
               /\ isProcessing' = FALSE
          ELSE /\ output' = Null
               /\ toast' = "Failed to save changes."
               /\ UNCHANGED isProcessing
  /\ saving' = Null
  /\ UNCHANGED << file, pdfDoc, pages, isLoadingPdf, cropVars, loading,
                  previewing, nAccepted, nEdits, hasPageNumberTag, removedIds >>

saveChangesDone(collaboratorOk) ==
  /\ saving # Null
  /\ LET t == Val(saving)
     IN IF collaboratorOk /\ CanMaterialize(t.file, t.pages)
          THEN /\ output' = Some([ pages |-> Materialize(t.file, t.pages),
                                   descriptors |-> t.pages ])
               /\ toast' = "Edited PDF saved successfully."
          ELSE /\ output' = Null
               /\ toast' = "Failed to save changes."
  /\ saving' = Null
  /\ isProcessing' = FALSE
  /\ UNCHANGED << file, pdfDoc, pages, isLoadingPdf, cropVars, loading,
                  previewing, nAccepted, nEdits, hasPageNumberTag, removedIds >>

\* ------------------------------------------------------------------- crop
\* Pixel size of the image pdf.js renders for a page at scale 1.5 (the
\* viewport honours the page's /Rotate).
PreviewScaleNum == 3
PreviewScaleDen == 2

RenderedImage(f, originalIndex) ==
  LET w == (SrcWidth(f, originalIndex) * PreviewScaleNum) \div PreviewScaleDen
      h == (SrcHeight(f, originalIndex) * PreviewScaleNum) \div PreviewScaleDen
  IN IF SrcRotation(f, originalIndex) \in {90, 270}
       THEN [ naturalWidth |-> h, naturalHeight |-> w ]
       ELSE [ naturalWidth |-> w, naturalHeight |-> h ]

CanRender(f, originalIndex) == Parses(f) /\ originalIndex < PageCount(f)

\* The handler openCropDialog up to the await of the rendering, run from
\* the idle panel whatever the selection is.
openCropDialogCalled ==
  /\ PanelShown /\ ~Busy
  /\ output' = Null
  /\ IF NotExactlyOneSelected(pages)
       THEN /\ toast' = "Please select exactly one page to crop."
            /\ UNCHANGED << cropVars, nEdits >>
     ELSE IF file = 0
       THEN /\ toast' = "Original file not available for cropping."
            /\ UNCHANGED << cropVars, nEdits >>
       ELSE LET index == CHOOSE k \in DOMAIN pages : pages[k].selected
                pageInfo == pages[index]
            IN /\ isRenderingCropPreview' = TRUE
               /\ cropError' = FALSE
               /\ croppingPageInfo' = Null
               /\ isCropping' = TRUE
               /\ rendering' = rendering \cup
                    { [ n |-> nEdits + 1, file |-> file, index |-> index,
                        originalIndex |-> pageInfo.id,
                        originalWidth |-> pageInfo.width,
                        originalHeight |-> pageInfo.height ] }
               /\ nEdits' = nEdits + 1
               /\ toast' = ""
               /\ UNCHANGED completedCrop
  /\ UNCHANGED << file, pdfDoc, pages, isProcessing, isLoadingPdf, loading,
                  saving, previewing, nAccepted, hasPageNumberTag, removedIds >>

\* The Crop button: enabled with exactly one page selected, idle.
openCropDialog == isSinglePageSelected /\ openCropDialogCalled

\* Variant: a catch block that leaves the dialog open.
openCropDialogDoneStaysOpen(t, collaboratorOk) ==
  /\ t \in rendering
  /\ rendering' = rendering \ {t}
  /\ isRenderingCropPreview' = FALSE
  /\ output' = Null
  /\ IF collaboratorOk /\ CanRender(t.file, t.originalIndex)
       THEN /\ croppingPageInfo' =
                 Some([ index |-> t.index,
                        originalIndex |-> t.originalIndex,
                        dataUrl |-> RenderedImage(t.file, t.originalIndex),
                        originalWidth |-> t.originalWidth,
                        originalHeight |-> t.originalHeight ])
            /\ completedCrop' = Null
            /\ toast' = ""
            /\ UNCHANGED << isCropping, cropError >>
       ELSE /\ toast' = "Could not render page for cropping."
            /\ UNCHANGED isCropping
            /\ cropError' = TRUE
            /\ UNCHANGED << croppingPageInfo, completedCrop >>
  /\ UNCHANGED << file, pdfDoc, pages, isProcessing, isLoadingPdf, loading,
                  saving, previewing, nAccepted, nEdits, hasPageNumberTag, removedIds >>

\* openCropDialog after the await: the try body, or the catch block;
\* `finally` clears isRenderingCropPreview.
openCropDialogDone(t, collaboratorOk) ==
  /\ t \in rendering
  /\ rendering' = rendering \ {t}
  /\ isRenderingCropPreview' = FALSE
  /\ output' = Null
  /\ IF collaboratorOk /\ CanRender(t.file, t.originalIndex)
       THEN /\ croppingPageInfo' =
                 Some([ index |-> t.index,
                        originalIndex |-> t.originalIndex,
                        dataUrl |-> RenderedImage(t.file, t.originalIndex),
                        originalWidth |-> t.originalWidth,
                        originalHeight |-> t.originalHeight ])
            /\ completedCrop' = Null
            /\ toast' = ""
            /\ UNCHANGED << isCropping, cropError >>
       ELSE /\ toast' = "Could not render page for cropping."
            /\ isCropping' = FALSE
            /\ cropError' = TRUE
            /\ UNCHANGED << croppingPageInfo, completedCrop >>
  /\ UNCHANGED << file, pdfDoc, pages, isProcessing, isLoadingPdf, loading,
                  saving, previewing, nAccepted, nEdits, hasPageNumberTag, removedIds >>

\* <ReactCrop> and its <img ref={imgRef}> are mounted.
CropImageShown ==
  /\ isCropping
  /\ croppingPageInfo # Null
  /\ ~cropError
  /\ ~isRenderingCropPreview

\* Selections the user can finish on an image: an inner rectangle and a
\* degenerate one of zero width ...
InnerCrops(img) ==
  { [ x |-> img.naturalWidth \div 10, y |-> img.naturalHeight \div 10,
      width |-> img.naturalWidth \div 2, height |-> img.naturalHeight \div 2 ],
    [ x |-> img.naturalWidth \div 10, y |-> img.naturalHeight \div 10,
      width |-> 0, height |-> img.naturalHeight \div 2 ] }

\* ... and with them the whole image and its lower right quarter.
\* <ReactCrop> keeps a selection inside the image.
PixelCrops(img) ==
  InnerCrops(img) \cup
  { [ x |-> 0, y |-> 0,
      width |-> img.naturalWidth, height |-> img.naturalHeight ],
    [ x |-> img.naturalWidth \div 2, y |-> img.naturalHeight \div 2,
      width |-> img.naturalWidth \div 2, height |-> img.naturalHeight \div 2 ] }

\* onComplete={(pixelCrop) => setCompletedCrop(pixelCrop)}
onComplete(pixelCrop) ==
  /\ CropImageShown
  /\ pixelCrop \in PixelCrops(Val(croppingPageInfo).dataUrl)
  /\ completedCrop' = Some(pixelCrop)
  /\ toast' = ""
  /\ output' = Null
  /\ UNCHANGED << file, pdfDoc, pages, isProcessing, isLoadingPdf, isCropping,
                  croppingPageInfo, cropError, isRenderingCropPreview, rendering,
                  loading, saving, previewing, nAccepted, nEdits, hasPageNumberTag,
                  removedIds >>

\* The rectangle onImageLoad places: centerCrop(makeAspectCrop({ unit: '%',
\* width: 90 }, aspect of the image, ...)), in pixels (rounded down).
InitialCrop(img) ==
  [ x |-> img.naturalWidth \div 20, y |-> img.naturalHeight \div 20,
    width |-> (img.naturalWidth * 9) \div 10,
    height |-> (img.naturalHeight * 9) \div 10 ]

\* The image has loaded: onImageLoad hands the initial rectangle to
\* <ReactCrop crop={crop}> and clears completedCrop; a <ReactCrop> that
\* reports a crop set from outside (its componentDidUpdate, when `crop`
\* goes from undefined to a value) then calls onComplete with it.
onCompleteInitialCrop ==
  /\ CropImageShown
  /\ completedCrop = Null
  /\ completedCrop' = Some(InitialCrop(Val(croppingPageInfo).dataUrl))
  /\ toast' = ""
  /\ output' = Null
  /\ UNCHANGED << file, pdfDoc, pages, isProcessing, isLoadingPdf, isCropping,
                  croppingPageInfo, cropError, isRenderingCropPreview, rendering,
                  loading, saving, previewing, nAccepted, nEdits, hasPageNumberTag,
                  removedIds >>

\* Variant: the pixel rectangle is stored without the scale factors.
NewCropBoxUnscaled(px, info) ==
  << px.x, info.originalHeight - (px.y + px.height), px.width, px.height >>

\* Variant: pdfY is taken from the top edge, without the inversion.
NewCropBoxTopLeft(px, info) ==
  LET displayWidth == info.dataUrl.naturalWidth
      displayHeight == info.dataUrl.naturalHeight
  IN << (px.x * info.originalWidth) \div displayWidth,
        (px.y * info.originalHeight) \div displayHeight,
        (px.width * info.originalWidth) \div displayWidth,
        (px.height * info.originalHeight) \div displayHeight >>

\* The rectangle applyCrop computes: <<pdfX, pdfY, pdfWidth, pdfHeight>>.
\* scaleX = originalWidth / displayWidth is a real number; the product is
\* taken before the division, exact on the sizes used here.
NewCropBox(px, info) ==
  LET displayWidth == info.dataUrl.naturalWidth
      displayHeight == info.dataUrl.naturalHeight
      pdfX == (px.x * info.originalWidth) \div displayWidth
      pdfY == info.originalHeight
                - ((px.y + px.height) * info.originalHeight) \div displayHeight
      pdfWidth == (px.width * info.originalWidth) \div displayWidth
      pdfHeight == (px.height * info.originalHeight) \div displayHeight
  IN << pdfX, pdfY, pdfWidth, pdfHeight >>

\* Variant: a catch block that closes the dialog.
ApplyCropResultClosesOnFailure(px, info, ps, doc) ==
  LET pageIndexInDoc == PageIndexInDoc(Val(doc).pages, info.originalIndex)
      newCropBox == NewCropBox(px, info)
  IN IF pageIndexInDoc = 0
       THEN [ pages |-> ps, pdfDoc |-> doc, closed |-> TRUE,
              toast |-> "Failed to apply crop." ]
       ELSE [ pages |-> [ i \in DOMAIN ps |->
                            IF i = info.index
                              THEN [ ps[i] EXCEPT !.cropBox = newCropBox,
                                                  !.selected = FALSE ]
                              ELSE ps[i] ],
              pdfDoc |-> Some([ Val(doc) EXCEPT
                                  !.pages[pageIndexInDoc].cropBox = newCropBox ]),
              closed |-> TRUE,
              toast |-> "crop applied." ]

\* Variant: the crop written at the page's place in the source file.
ApplyCropResultByOriginalIndex(px, info, ps, doc) ==
  LET pageIndexInDoc == PageIndexInDoc(Val(doc).pages, info.originalIndex)
      newCropBox == NewCropBox(px, info)
  IN IF pageIndexInDoc = 0
       THEN [ pages |-> ps, pdfDoc |-> doc, closed |-> FALSE,
              toast |-> "Failed to apply crop." ]
       ELSE [ pages |-> [ i \in DOMAIN ps |->
                            IF i = info.originalIndex + 1
                              THEN [ ps[i] EXCEPT !.cropBox = newCropBox,
                                                  !.selected = FALSE ]
                              ELSE ps[i] ],
              pdfDoc |-> Some([ Val(doc) EXCEPT
                                  !.pages[pageIndexInDoc].cropBox = newCropBox ]),
              closed |-> TRUE,
              toast |-> "crop applied." ]

\* Variant: a commit that maps the selection into the crop box the page
\* already has, when it has one.
ApplyCropResultCompounding(px, info, ps, doc) ==
  LET pageIndexInDoc == PageIndexInDoc(Val(doc).pages, info.originalIndex)
      old == IF info.index \in DOMAIN ps THEN ps[info.index].cropBox ELSE Null
      inner == IF old = Null
                 THEN NewCropBox(px, info)
                 ELSE NewCropBox(px, [ info EXCEPT !.originalWidth = old[3],
                                                   !.originalHeight = old[4] ])
      newCropBox == IF old = Null
                      THEN inner
                      ELSE << old[1] + inner[1], old[2] + inner[2],
                              inner[3], inner[4] >>
  IN IF pageIndexInDoc = 0
       THEN [ pages |-> ps, pdfDoc |-> doc, closed |-> FALSE,
              toast |-> "Failed to apply crop." ]
       ELSE [ pages |-> [ i \in DOMAIN ps |->
                            IF i = info.index
                              THEN [ ps[i] EXCEPT !.cropBox = newCropBox,
                                                  !.selected = FALSE ]
                              ELSE ps[i] ],
              pdfDoc |-> Some([ Val(doc) EXCEPT
                                  !.pages[pageIndexInDoc].cropBox = newCropBox ]),
              closed |-> TRUE,
              toast |-> "crop applied." ]

\* Everything applyCrop does with the selection px, past its first guard:
\* the throw of a failed lookup goes to the catch block, which only toasts.
ApplyCropResult(px, info, ps, doc) ==
  LET pageIndexInDoc == PageIndexInDoc(Val(doc).pages, info.originalIndex)
      newCropBox == NewCropBox(px, info)
  IN IF pageIndexInDoc = 0
       THEN [ pages |-> ps, pdfDoc |-> doc, closed |-> FALSE,
              toast |-> "Failed to apply crop." ]
       ELSE [ pages |-> [ i \in DOMAIN ps |->
                            IF i = info.index
                              THEN [ ps[i] EXCEPT !.cropBox = newCropBox,
                                                  !.selected = FALSE ]
                              ELSE ps[i] ],
              pdfDoc |-> Some([ Val(doc) EXCEPT
                                  !.pages[pageIndexInDoc].cropBox = newCropBox ]),
              closed |-> TRUE,
              toast |-> "crop applied." ]

\* The Apply Crop button of the dialog.
applyCrop ==
  /\ isCropping
  /\ completedCrop # Null
  /\ Val(completedCrop).width # 0 /\ Val(completedCrop).height # 0
  /\ ~isProcessing /\ ~isRenderingCropPreview
  /\ output' = Null
  /\ IF pdfDoc = Null \/ croppingPageInfo = Null \/ ~CropImageShown
       THEN /\ toast' = "Cannot apply crop. Missing data."
            /\ UNCHANGED << pdfDoc, pages, isCropping, croppingPageInfo >>
       ELSE LET r == ApplyCropResult(Val(completedCrop), Val(croppingPageInfo),
                                     pages, pdfDoc)
            IN /\ pdfDoc' = r.pdfDoc
               /\ pages' = r.pages
               /\ toast' = r.toast
               /\ isCropping' = IF r.closed THEN FALSE ELSE isCropping
               /\ croppingPageInfo' = IF r.closed THEN Null ELSE croppingPageInfo
  /\ UNCHANGED << file, isProcessing, isLoadingPdf, completedCrop, cropError,
                  isRenderingCropPreview, rendering, loading, saving, previewing,
                  nAccepted, nEdits, hasPageNumberTag, removedIds >>

\* Variant: a Cancel that keeps the finished selection.
closeCropDialogKeepsSelection ==
  /\ isCropping
  /\ isCropping' = FALSE
  /\ croppingPageInfo' = Null
  /\ UNCHANGED completedCrop
  /\ cropError' = FALSE
  /\ nEdits' = IF rendering # {} THEN nEdits + 1 ELSE nEdits
  /\ toast' = ""
  /\ output' = Null
  /\ UNCHANGED << file, pdfDoc, pages, isProcessing, isLoadingPdf,
                  isRenderingCropPreview, rendering, loading, saving, previewing,
                  nAccepted, hasPageNumberTag, removedIds >>

\* Cancel / dismissing the dialog.
closeCropDialog ==
  /\ isCropping
  /\ isCropping' = FALSE
  /\ croppingPageInfo' = Null
  /\ completedCrop' = Null
  /\ cropError' = FALSE
  /\ nEdits' = IF rendering # {} THEN nEdits + 1 ELSE nEdits
  /\ toast' = ""
  /\ output' = Null
  /\ UNCHANGED << file, pdfDoc, pages, isProcessing, isLoadingPdf,
                  isRenderingCropPreview, rendering, loading, saving, previewing,
                  nAccepted, hasPageNumberTag, removedIds >>

\* ---------------------------------------------------------------- preview
\* The handler previewSelectedPage up to the await of the rendering, run
\* from the idle panel whatever the selection is.
previewSelectedPageCalled ==
  /\ PanelShown /\ ~Busy
  /\ output' = Null
  /\ IF NotExactlyOneSelected(pages)
       THEN /\ toast' = "Please select exactly one page to preview."
            /\ UNCHANGED << isProcessing, previewing >>
     ELSE IF file = 0
       THEN /\ toast' = "Original file not available for preview."
            /\ UNCHANGED << isProcessing, previewing >>
       ELSE /\ isProcessing' = TRUE
            /\ previewing' = Some([ file |-> file,
                 originalIndex |-> pages[CHOOSE k \in DOMAIN pages : pages[k].selected].id ])
            /\ toast' = ""
  /\ UNCHANGED << file, pdfDoc, pages, isLoadingPdf, cropVars, loading, saving,
                  nAccepted, nEdits, hasPageNumberTag, removedIds >>

\* The Preview button: enabled with exactly one page selected, idle.
previewSelectedPage == isSinglePageSelected /\ previewSelectedPageCalled

\* Variant: a preview that deselects its page when it is done.
previewSelectedPageDoneDeselects(collaboratorOk) ==
  /\ previewing # Null
  /\ previewing' = Null
  /\ isProcessing' = FALSE
  /\ output' = Null
  /\ toast' = IF collaboratorOk
                   /\ CanRender(Val(previewing).file, Val(previewing).originalIndex)
                THEN "" ELSE "Failed to generate preview"
  /\ pages' = [ k \in DOMAIN pages |-> [ pages[k] EXCEPT !.selected = FALSE ] ]
  /\ UNCHANGED << file, pdfDoc, isLoadingPdf, cropVars, loading, saving,
                  nAccepted, nEdits, hasPageNumberTag, removedIds >>

previewSelectedPageDone(collaboratorOk) ==
  /\ previewing # Null
  /\ previewing' = Null
  /\ isProcessing' = FALSE
  /\ output' = Null
  /\ toast' = IF collaboratorOk
                   /\ CanRender(Val(previewing).file, Val(previewing).originalIndex)
                THEN "" ELSE "Failed to generate preview"
  /\ UNCHANGED << file, pdfDoc, pages, isLoadingPdf, cropVars, loading, saving,
                  nAccepted, nEdits, hasPageNumberTag, removedIds >>

\* ------------------------------------------------------------ the program
\* Spec is the editor working on one document: a file is dropped once and
\* then edited.
Next ==
  \/ \E f \in Files : nAccepted = 0 /\ handleFileAccepted(f)
  \/ \E t \in loading : loadPdf(t)
  \/ \E index \in 1 .. MaxPages + 1 : togglePageSelection(index)
  \/ \E select \in BOOLEAN : selectAllPages(select)
  \/ \E index \in 1 .. MaxPages + 1, direction \in {"left", "right"} :
       movePage(index, direction)
  \/ deleteSelectedPages
  \/ /\ nEdits + Cardinality(getSelectedCurrentIndices(pages)) <= MaxEdits
     /\ rotateSelectedPages(RotateButtonAngle)
  \/ saveChanges
  \/ \E ok \in BOOLEAN : saveChangesDone(ok)
  \/ nEdits < MaxEdits /\ openCropDialog
  \/ \E t \in rendering, ok \in BOOLEAN : openCropDialogDone(t, ok)
  \/ \E img \in { RenderedImage(f, i) : f \in Files, i \in 0 .. MaxPages - 1 } :
       \E px \in InnerCrops(img) : onComplete(px)
  \/ applyCrop
  \/ (rendering = {} \/ nEdits < MaxEdits) /\ closeCropDialog
  \/ previewSelectedPage
  \/ \E ok \in BOOLEAN : previewSelectedPageDone(ok)

Spec == Init /\ [][Next]_vars

\* The crop session on one document: the Crop button, the rendering, every
\* selection of PixelCrops, Apply and Cancel, among toggles, moves and saves.
CropNext ==
  \/ \E f \in Files : nAccepted = 0 /\ handleFileAccepted(f)
  \/ \E t \in loading : loadPdf(t)
  \/ \E index \in 1 .. MaxPages + 1 : togglePageSelection(index)
  \/ \E index \in 1 .. MaxPages + 1, direction \in {"left", "right"} :
       movePage(index, direction)
  \/ nEdits < MaxEdits /\ openCropDialog
  \/ \E t \in rendering, ok \in BOOLEAN : openCropDialogDone(t, ok)
  \/ \E img \in { RenderedImage(f, i) : f \in Files, i \in 0 .. MaxPages - 1 } :
       \E px \in PixelCrops(img) : onComplete(px)
  \/ applyCrop
  \/ (rendering = {} \/ nEdits < MaxEdits) /\ closeCropDialog
  \/ saveChanges
  \/ \E ok \in BOOLEAN : saveChangesDone(ok)

SpecCrop == Init /\ [][CropNext]_vars

\* The crop session in a build whose <ReactCrop> reports the rectangle
\* that onImageLoad places; the user's own selections are those of
\* InnerCrops.
InitialCropNext ==
  \/ \E f \in Files : nAccepted = 0 /\ handleFileAccepted(f)
  \/ \E t \in loading : loadPdf(t)
  \/ \E index \in 1 .. MaxPages + 1 : togglePageSelection(index)
  \/ nEdits < MaxEdits /\ openCropDialog
  \/ \E t \in rendering, ok \in BOOLEAN : openCropDialogDone(t, ok)
  \/ onCompleteInitialCrop
  \/ \E img \in { RenderedImage(f, i) : f \in Files, i \in 0 .. MaxPages - 1 } :
       \E px \in InnerCrops(img) : onComplete(px)
  \/ applyCrop
  \/ (rendering = {} \/ nEdits < MaxEdits) /\ closeCropDialog

SpecInitialCrop == Init /\ [][InitialCropNext]_vars

\* Files dropped one after the other: <FileUploader> is always there, so a
\* file can be accepted while earlier loads are still at their await, and
\* the loads return in any order.
LoadRaceNext ==
  \/ \E f \in Files : nAccepted < MaxLoads /\ handleFileAccepted(f)
  \/ \E t \in loading : loadPdf(t)
  \/ \E index \in 1 .. MaxPages + 1 : togglePageSelection(index)
  \/ saveChanges
  \/ \E ok \in BOOLEAN : saveChangesDone(ok)

SpecLoadRace == Init /\ [][LoadRaceNext]_vars

\* One crop session after the other on one document: a page that has a
\* crop box is selected and cropped again.  No dialog is dismissed during
\* its rendering.
RecropNext ==
  \/ \E f \in Files : nAccepted = 0 /\ handleFileAccepted(f)
  \/ \E t \in loading : loadPdf(t)
  \/ \E index \in 1 .. MaxPages + 1 : togglePageSelection(index)
  \/ nEdits < MaxEdits + 1 /\ openCropDialog
  \/ \E t \in rendering, ok \in BOOLEAN : openCropDialogDone(t, ok)
  \/ \E img \in { RenderedImage(f, i) : f \in Files, i \in 0 .. MaxPages - 1 } :
       \E px \in PixelCrops(img) : onComplete(px)
  \/ applyCrop
  \/ rendering = {} /\ closeCropDialog

SpecRecrop == Init /\ [][RecropNext]_vars

\* A second file arrives during the editing of the first: <FileUploader>
\* calls onFileAccepted from a timer, some 800 ms after the drop, so the
\* call can fall into an open crop dialog.  Crop dialogs are opened on the
\* first document only.
CropReloadNext ==
  \/ \E f \in Files : nAccepted < 2 /\ handleFileAccepted(f)
  \/ \E t \in loading : loadPdf(t)
  \/ \E index \in 1 .. MaxPages + 1 : togglePageSelection(index)
  \/ nAccepted = 1 /\ nEdits < MaxEdits /\ openCropDialog
  \/ \E t \in rendering, ok \in BOOLEAN : openCropDialogDone(t, ok)
  \/ \E img \in { RenderedImage(f, i) : f \in Files, i \in 0 .. MaxPages - 1 } :
       \E px \in InnerCrops(img) : onComplete(px)
  \/ applyCrop
  \/ rendering = {} /\ closeCropDialog

SpecCropReload == Init /\ [][CropReloadNext]_vars

\* The editor with collaborators that return: every awaited call of pdf-lib,
\* pdf.js and the File API comes back, with a result or with an exception,
\* so each pending load, save, rendering and preview is eventually resumed.
\* What the user does is left to the user: no fairness on the buttons.
\* A second file, the one-page one, can arrive while the first is loading.
LiveNext ==
  \/ \E f \in Files : nAccepted = 0 /\ handleFileAccepted(f)
  \/ nAccepted = 1 /\ loading # {} /\ handleFileAccepted(2)
  \/ \E t \in loading : loadPdf(t)
  \/ \E index \in 1 .. MaxPages + 1 : togglePageSelection(index)
  \/ deleteSelectedPages
  \/ /\ nEdits + Cardinality(getSelectedCurrentIndices(pages)) <= MaxEdits
     /\ rotateSelectedPages(RotateButtonAngle)
  \/ saveChanges
  \/ \E ok \in BOOLEAN : saveChangesDone(ok)
  \/ nEdits < MaxEdits /\ openCropDialog
  \/ \E t \in rendering, ok \in BOOLEAN : openCropDialogDone(t, ok)
  \/ \E img \in { RenderedImage(f, i) : f \in Files, i \in 0 .. MaxPages - 1 } :
       \E px \in InnerCrops(img) : onComplete(px)
  \/ applyCrop
  \/ (rendering = {} \/ nEdits < MaxEdits) /\ closeCropDialog
  \/ previewSelectedPage
  \/ \E ok \in BOOLEAN : previewSelectedPageDone(ok)

CollaboratorsReturn ==
  /\ WF_vars(\E t \in loading : loadPdf(t))
  /\ WF_vars(\E ok \in BOOLEAN : saveChangesDone(ok))
  /\ WF_vars(\E t \in rendering, ok \in BOOLEAN : openCropDialogDone(t, ok))
  /\ WF_vars(\E ok \in BOOLEAN : previewSelectedPageDone(ok))

SpecLive == Init /\ [][LiveNext]_vars /\ CollaboratorsReturn

\* The four selection handlers run whatever the selection is, as a caller
\* that does not go through the buttons' `disabled` would run them.
HandlerNext ==
  \/ \E f \in Files : nAccepted = 0 /\ handleFileAccepted(f)
  \/ \E t \in loading : loadPdf(t)
  \/ \E index \in 1 .. MaxPages + 1 : togglePageSelection(index)
  \/ \E select \in BOOLEAN : selectAllPages(select)
  \/ deleteSelectedPagesCalled
  \/ /\ nEdits + Cardinality(getSelectedCurrentIndices(pages)) <= MaxEdits
     /\ rotateSelectedPagesCalled(RotateButtonAngle)
  \/ nEdits < MaxEdits /\ openCropDialogCalled
  \/ \E t \in rendering, ok \in BOOLEAN : openCropDialogDone(t, ok)
  \/ (rendering = {} \/ nEdits < MaxEdits) /\ closeCropDialog
  \/ previewSelectedPageCalled
  \/ \E ok \in BOOLEAN : previewSelectedPageDone(ok)

SpecHandlers == Init /\ [][HandlerNext]_vars

\* The crop session around a dismissed dialog: Cancel while the preview is
\* still rendering leaves the rendering running with every control enabled,
\* so pages can be moved and selected and the dialog opened again before the
\* first rendering returns.
StaleRenderNext ==
  \/ nAccepted = 0 /\ handleFileAccepted(1)
  \/ \E t \in loading : loadPdf(t)
  \/ /\ nEdits = 0 \/ (rendering # {} /\ ~isCropping)
     /\ \E index \in 1 .. MaxPages + 1 : togglePageSelection(index)
  \/ /\ rendering # {} /\ ~isCropping
     /\ \E index \in 1 .. MaxPages + 1, direction \in {"left", "right"} :
          movePage(index, direction)
  \/ nEdits < MaxEdits + 2 /\ openCropDialog
  \/ \E t \in rendering, ok \in BOOLEAN : openCropDialogDone(t, ok)
  \/ \E img \in { RenderedImage(f, i) : f \in Files, i \in 0 .. MaxPages - 1 } :
       \E px \in PixelCrops(img) : onComplete(px)
  \/ applyCrop
  \/ (rendering = {} \/ nEdits < MaxEdits + 2) /\ closeCropDialog

SpecStaleRender == Init /\ [][StaleRenderNext]_vars

\* ================================================================== claims
CountId(ps, id) == Cardinality({ k \in DOMAIN ps : ps[k].id = id })

\* The two lists hold the same ids, each the same number of times.
SameBagOfIds(before, after) ==
  /\ Len(after) = Len(before)
  /\ \A id \in Ids(before) \cup Ids(after) : CountId(after, id) = CountId(before, id)

AllSelected(ps) == \A k \in DOMAIN ps : ps[k].selected

NotSelected(p) == ~p.selected

IdOrder(ps) == [ k \in DOMAIN ps |-> ps[k].id ]

\* C1: a successful save delivers, position by position, the copy of the
\* source page named by the descriptor at that position of the page list
\* the save read, with exactly that descriptor's rotation and crop
\* rectangle, and with no crop box where the descriptor has none.
C1_SaveFollowsDescriptors ==
  output # Null =>
    LET o == Val(output) IN
    /\ Len(o.pages) = Len(o.descriptors)
    /\ \A i \in DOMAIN o.descriptors :
         /\ o.pages[i].srcIndex = o.descriptors[i].id
         /\ o.pages[i].rotation = o.descriptors[i].rotation
         /\ o.pages[i].cropBox = o.descriptors[i].cropBox

\* A save came out of a page list that was reordered, with different
\* rotations and a crop rectangle on one of its pages.
C1_Witness ==
  /\ output # Null
  /\ Val(output).descriptors = pages
  /\ Len(pages) >= 2
  /\ pages[1].id > pages[2].id
  /\ \E k \in DOMAIN pages : pages[k].cropBox # Null
  /\ \E k \in DOMAIN pages : pages[k].cropBox = Null
  /\ pages[1].rotation # pages[2].rotation

\* C2: the output of a save contains no page whose id was deleted, and has
\* as many pages as there are surviving descriptors.
C2_SaveOmitsDeleted ==
  output # Null =>
    LET o == Val(output) IN
    /\ \A i \in DOMAIN o.pages : o.pages[i].srcIndex \notin removedIds
    /\ Ids(o.descriptors) \cap removedIds = {}
    /\ Len(o.pages) = Len(o.descriptors)

C2_Witness ==
  /\ output # Null
  /\ removedIds # {}
  /\ Val(output).descriptors = pages
  /\ Len(Val(output).pages) = PageCount(file) - Cardinality(removedIds)

\* C3: a move, at any position and in any direction, the boundaries
\* included, leaves the multiset of ids of the page list unchanged.
C3_MoveKeepsIds ==
  \A index \in DOMAIN pages, direction \in {"left", "right"} :
    LET moved == MovedPages(pages, index, direction)
    IN SameBagOfIds(pages, moved)

\* The last page of the source has been moved to the front.
C3_Witness ==
  /\ Len(pages) >= 3
  /\ removedIds = {}
  /\ pages[1].id = Len(pages) - 1

SwapsNeighbours(before, after, index, targetIndex) ==
  /\ Len(after) = Len(before)
  /\ after[index] = before[targetIndex]
  /\ after[targetIndex] = before[index]
  /\ \A k \in DOMAIN before \ {index, targetIndex} : after[k] = before[k]

\* C4: a move swaps the descriptor at the position with its neighbour in
\* the direction, each keeping all its fields, and changes no other
\* position; at the boundary in its direction the list is unchanged.
C4_MoveSwapsNeighbours ==
  \A index \in DOMAIN pages :
    /\ index = 1 => MovedPages(pages, index, "left") = pages
    /\ index = Len(pages) => MovedPages(pages, index, "right") = pages
    /\ index > 1 =>
         SwapsNeighbours(pages, MovedPages(pages, index, "left"),
                         index, index - 1)
    /\ index < Len(pages) =>
         SwapsNeighbours(pages, MovedPages(pages, index, "right"),
                         index, index + 1)

\* A cropped page and a page with a different rotation have changed places
\* in a list of at least three pages.
C4_Witness ==
  /\ Len(pages) >= 3
  /\ pages[1].id = 1 /\ pages[2].id = 0
  /\ pages[1].cropBox # Null
  /\ pages[1].rotation # pages[2].rotation

\* C5: wherever Delete can be pressed with some but not all pages selected,
\* it removes exactly the pages that are selected: the new list is the old
\* one without the selected positions, the others in their order with their
\* id, size, rotation and crop.
C5_DeleteRemovesSelected ==
  (PanelShown /\ ~Busy /\ areAnyPagesSelected /\ ~AllSelected(pages)) =>
    LET r == DeleteResult(pages, pdfDoc) IN
    /\ r.pages = SelectSeq(pages, NotSelected)
    /\ r.removed = getSelectedOriginalIndices(pages)
    /\ r.toast = "page(s) deleted."

\* A page has been deleted from a reordered list.
C5_Witness ==
  /\ toast = "page(s) deleted."
  /\ removedIds # {}
  /\ Len(pages) >= 2
  /\ pages[1].id > pages[2].id

\* C6: wherever Delete can be pressed with every page selected, it is
\* rejected: neither the page list nor the parsed document changes, and the
\* error is reported.
C6_DeleteAllRejected ==
  (PanelShown /\ ~Busy /\ areAnyPagesSelected /\ AllSelected(pages)) =>
    LET r == DeleteResult(pages, pdfDoc) IN
    /\ r.pages = pages
    /\ r.pdfDoc = pdfDoc
    /\ r.removed = {}
    /\ r.toast = "Cannot delete all pages."

C6_Witness ==
  /\ toast = "Cannot delete all pages."
  /\ Len(pages) >= 2
  /\ AllSelected(pages)

\* C7: the page list a save starts from is never empty.
C7_SaveStartsNonEmpty ==
  saving # Null => Len(Val(saving).pages) > 0

\* A save is running on a list pages were deleted from.
C7_Witness ==
  /\ saving # Null
  /\ removedIds # {}
  /\ Val(saving).pages = pages

\* C8: the ids of the page list are pairwise distinct pages of the loaded
\* source, a deleted id is not in the list, and between loads the set of
\* ids only shrinks.
C8_IdsTraceToSource ==
  /\ [](/\ \A i, j \in DOMAIN pages : i # j => pages[i].id # pages[j].id
        /\ pdfDoc = Null => pages = <<>>
        /\ pdfDoc # Null =>
             \A k \in DOMAIN pages :
               pages[k].id \in 0 .. PageCount(Val(pdfDoc).src) - 1
        /\ Ids(pages) \cap removedIds = {})
  /\ [][loading' = loading => Ids(pages') \subseteq Ids(pages)]_vars

\* Pages were deleted, moved and cropped after the load.
C8_Witness ==
  /\ removedIds # {}
  /\ Len(pages) >= 2
  /\ pages[1].id > pages[2].id
  /\ \E k \in DOMAIN pages : pages[k].cropBox # Null
  /\ toast = "crop applied."

\* ------------------------------------------------- the walk-through scenario
\* SpecScenario runs one fixed sequence of user actions on a three-page
\* source: load, select page 2, rotate, move page 2 right, select original
\* page 1 alone, delete, save.  Each step is the editor's own action, enabled
\* only at its place in the sequence.
ScnAccept ==
  /\ nAccepted = 0
  /\ \E f \in ScenarioFiles : handleFileAccepted(f)

ScnLoad == \E t \in loading : loadPdf(t)

ScnSelectPage2 ==
  /\ nEdits = 0
  /\ getSelectedCurrentIndices(pages) = {}
  /\ togglePageSelection(2)

ScnRotate ==
  /\ nEdits = 0
  /\ getSelectedCurrentIndices(pages) = {2}
  /\ rotateSelectedPages(RotateButtonAngle)

ScnMoveRight ==
  /\ nEdits = 1
  /\ IdOrder(pages) = <<0, 1, 2>>
  /\ movePage(2, "right")

\* Make original page 1 the only selected page: deselect what is still
\* selected, then select it.
ScnSelectPage1 ==
  /\ IdOrder(pages) = <<0, 2, 1>>
  /\ getSelectedOriginalIndices(pages) # {0}
  /\ \E index \in DOMAIN pages :
       /\ IF getSelectedOriginalIndices(pages) \ {0} # {}
            THEN pages[index].selected /\ pages[index].id # 0
            ELSE pages[index].id = 0
       /\ togglePageSelection(index)

ScnDelete ==
  /\ IdOrder(pages) = <<0, 2, 1>>
  /\ getSelectedOriginalIndices(pages) = {0}
  /\ deleteSelectedPages

ScnSave ==
  /\ removedIds = {0}
  /\ toast = "page(s) deleted."
  /\ saveChanges

ScnSaveDone == \E ok \in BOOLEAN : saveChangesDone(ok)

ScenarioNext ==
  \/ ScnAccept
  \/ ScnLoad
  \/ ScnSelectPage2
  \/ ScnRotate
  \/ ScnMoveRight
  \/ ScnSelectPage1
  \/ ScnDelete
  \/ ScnSave
  \/ ScnSaveDone

SpecScenario == Init /\ [][ScenarioNext]_vars

RotateAngles == {-90, 90, 180, 270}

Reselect(ps, S) == [ k \in DOMAIN ps |-> [ ps[k] EXCEPT !.selected = (k \in S) ] ]

NormalRotations == {0, 90, 180, 270}

CropMapsTo(px, previewWidth, previewHeight, pageWidth, pageHeight, box) ==
  /\ box[1] * previewWidth = px.x * pageWidth
  /\ box[3] * previewWidth = px.width * pageWidth
  /\ box[4] * previewHeight = px.height * pageHeight
  /\ (pageHeight - box[2]) * previewHeight = (px.y + px.height) * pageHeight

\* C12: the rectangle a commit stores at the session's target position is
\* the pixel selection scaled by the page's load-time size, as the session
\* recorded it, over the preview's pixel size, its y inverted; the selection
\* {30, 40, 150, 100} on a 300 x 400 preview of a 600 x 800 page gives
\* {60, 520, 300, 200}.
C12_CropFormula ==
  /\ [](NewCropBox([ x |-> 30, y |-> 40, width |-> 150, height |-> 100 ],
                   [ index |-> 1, originalIndex |-> 0,
                     dataUrl |-> [ naturalWidth |-> 300, naturalHeight |-> 400 ],
                     originalWidth |-> 600, originalHeight |-> 800 ])
          = << 60, 520, 300, 200 >>)
  /\ [][(toast' = "crop applied." /\ applyCrop) =>
          LET info == Val(croppingPageInfo) IN
          /\ pages'[info.index].cropBox # Null
          /\ info.originalWidth = SrcWidth(file, info.originalIndex)
          /\ info.originalHeight = SrcHeight(file, info.originalIndex)
          /\ info.dataUrl = RenderedImage(file, info.originalIndex)
          /\ CropMapsTo(Val(completedCrop),
                        info.dataUrl.naturalWidth, info.dataUrl.naturalHeight,
                        info.originalWidth, info.originalHeight,
                        pages'[info.index].cropBox)]_vars

\* A crop of an inner rectangle has been stored.
C12_Witness ==
  /\ toast = "crop applied."
  /\ completedCrop # Null
  /\ Val(completedCrop).x > 0 /\ Val(completedCrop).y > 0
  /\ \E k \in DOMAIN pages :
       /\ pages[k].cropBox # Null
       /\ pages[k].cropBox[1] > 0 /\ pages[k].cropBox[2] > 0
       /\ pages[k].cropBox[2] + pages[k].cropBox[4] < pages[k].height

\* Does box = <<x, y, width, height>> lie within the page?
InPage(box, pageWidth, pageHeight) ==
  /\ box[1] >= 0 /\ box[2] >= 0
  /\ box[1] + box[3] <= pageWidth
  /\ box[2] + box[4] <= pageHeight

\* Pixel rectangles that leave the image: past its right edge, and left of
\* its left edge.
StrayCrops(img) ==
  { [ x |-> img.naturalWidth \div 2, y |-> 0,
      width |-> img.naturalWidth, height |-> img.naturalHeight \div 2 ],
    [ x |-> 0 - img.naturalWidth \div 10, y |-> 0,
      width |-> img.naturalWidth \div 2, height |-> img.naturalHeight \div 2 ] }

C14_CropWithinPage ==
  \A k \in DOMAIN pages :
    pages[k].cropBox # Null =>
      /\ pages[k].cropBox[3] > 0 /\ pages[k].cropBox[4] > 0
      /\ InPage(pages[k].cropBox, pages[k].width, pages[k].height)

\* What a viewer shows of a saved page: its crop box, or with no crop box
\* the whole page (sources have their media box at the origin and no crop
\* box of their own).
VisibleBox(outPage) ==
  IF outPage.cropBox # Null THEN outPage.cropBox
  ELSE << 0, 0, SrcWidth(outPage.file, outPage.srcIndex),
                SrcHeight(outPage.file, outPage.srcIndex) >>

WholeImage(img) ==
  [ x |-> 0, y |-> 0, width |-> img.naturalWidth, height |-> img.naturalHeight ]

\* C15: a commit of the selection that covers the whole preview stores the
\* full bounds <<0, 0, width, height>> of the page the preview shows, and a
\* saved page cropped to its full bounds shows what the same page saved
\* without a crop shows.
C15_WholeImageIsWholePage ==
  /\ [][(toast' = "crop applied." /\ applyCrop
           /\ Val(completedCrop) = WholeImage(Val(croppingPageInfo).dataUrl)) =>
          LET info == Val(croppingPageInfo) IN
          pages'[info.index].cropBox =
            << 0, 0, SrcWidth(file, info.originalIndex),
                     SrcHeight(file, info.originalIndex) >>]_vars
  /\ [](output # Null =>
          LET o == Val(output) IN
          \A i \in DOMAIN o.descriptors :
            LET pageInfo == o.descriptors[i] IN
            pageInfo.cropBox = << 0, 0, pageInfo.width, pageInfo.height >> =>
              VisibleBox(o.pages[i]) =
                VisibleBox(OutputPage(o.pages[i].file,
                                      [ pageInfo EXCEPT !.cropBox = Null ])))

\* A page cropped to the whole preview has been saved.
C15_Witness ==
  /\ output # Null
  /\ \E i \in DOMAIN Val(output).descriptors :
       LET pageInfo == Val(output).descriptors[i] IN
       /\ pageInfo.cropBox = << 0, 0, pageInfo.width, pageInfo.height >>
       /\ Val(output).pages[i].cropBox = pageInfo.cropBox

\* ------------------------------------------------------- the crop session
\* C16: while a crop session is open, rendering or ready, the Crop button
\* opens no second one: no step from such a state is an openCropDialog,
\* so the session's target, preview and selection stay as they are.
C16_OneCropSession ==
  isCropping => ~ENABLED openCropDialog

\* A session is ready with a selection in progress, and exactly one page is
\* selected, as the Crop button needs it.
C16_Witness ==
  /\ CropImageShown
  /\ completedCrop # Null
  /\ PanelShown /\ isSinglePageSelected
  /\ file # 0

\* ------------------------------------------- handlers and the selection
\* What a handler that turns the selection away must leave alone: the page
\* list, the document, the crop session and its rendering, the busy flags
\* and the work in flight.
HandlerUntouched ==
  << pages, pdfDoc, file, cropVars, isProcessing, isLoadingPdf, loading,
     saving, previewing, removedIds >>

\* C17: preview and crop run with a selection of zero or of several pages,
\* and delete and rotate run with no page selected, change nothing: the
\* page list, the document, the crop session and the busy flags stay as
\* they are, no rendering is started, and only a toast is shown.
C17_InvalidSelectionNoOp ==
  [][ /\ (~isSinglePageSelected /\ previewSelectedPageCalled) =>
           (UNCHANGED HandlerUntouched /\
            toast' = "Please select exactly one page to preview.")
      /\ (~isSinglePageSelected /\ openCropDialogCalled) =>
           (UNCHANGED HandlerUntouched /\
            toast' = "Please select exactly one page to crop.")
      /\ (~areAnyPagesSelected /\ deleteSelectedPagesCalled) =>
           (UNCHANGED HandlerUntouched /\
            toast' = "No pages selected for deletion.")
      /\ (~areAnyPagesSelected /\ rotateSelectedPagesCalled(RotateButtonAngle)) =>
           (UNCHANGED HandlerUntouched /\
            toast' = "No pages selected for rotation.") ]_vars

\* The crop handler has just turned away a selection of several pages.
C17_Witness ==
  /\ toast = "Please select exactly one page to crop."
  /\ Cardinality(getSelectedCurrentIndices(pages)) > 1
  /\ ~isCropping /\ rendering = {}

\* C18: a rendering of the crop preview that fails closes the dialog,
\* shows the error and leaves the page list and the document as they
\* were; and while the dialog is open and rendering, no step changes
\* the page list, so it is still the list the Crop button saw.
C18_RenderFailureCloses ==
  [][ /\ (isCropping /\ isRenderingCropPreview) =>
           (pages' = pages /\ pdfDoc' = pdfDoc)
      /\ \A t \in rendering :
           (openCropDialogDone(t, FALSE) \/
            (~CanRender(t.file, t.originalIndex) /\ openCropDialogDone(t, TRUE))) =>
             /\ ~isCropping'
             /\ ~isRenderingCropPreview'
             /\ cropError'
             /\ toast' = "Could not render page for cropping."
             /\ pages' = pages /\ pdfDoc' = pdfDoc ]_vars

\* The rendering for an open dialog has just failed.
C18_Witness ==
  /\ toast = "Could not render page for cropping."
  /\ ~isCropping /\ cropError /\ rendering = {}
  /\ PanelShown /\ isSinglePageSelected

\* C19: a commit that succeeds closes the dialog and drops the session's
\* record; the descriptor at the session's display position gets the
\* mapped box and keeps its id, size and rotation; every other descriptor,
\* and the order of the list, stay as they were.
C19_CommitWritesTarget ==
  [][ (toast' = "crop applied." /\ applyCrop) =>
        LET info == Val(croppingPageInfo) IN
        /\ ~isCropping' /\ croppingPageInfo' = Null
        /\ DOMAIN pages' = DOMAIN pages
        /\ info.index \in DOMAIN pages
        /\ pages'[info.index] =
             [ pages[info.index] EXCEPT
                 !.cropBox = NewCropBox(Val(completedCrop), info),
                 !.selected = FALSE ]
        /\ \A i \in DOMAIN pages \ {info.index} : pages'[i] = pages[i] ]_vars

\* A crop has just been committed on a page that was moved before.
C19_Witness ==
  /\ toast = "crop applied."
  /\ ~isCropping /\ croppingPageInfo = Null
  /\ \E i \in DOMAIN pages :
       /\ pages[i].cropBox # Null
       /\ pages[i].id # i - 1
       /\ \E j \in DOMAIN pages : j # i /\ pages[j].cropBox = Null

\* C20: a commit that fails, by the page not being found in the document,
\* changes no descriptor and not the document, and leaves the dialog as it
\* was: still open on the same page, with its preview and the selection
\* made on it, and with Apply enabled again.
C20_FailedCommitKeepsSession ==
  [][ (toast' = "Failed to apply crop." /\ applyCrop) =>
        /\ CropImageShown /\ CropImageShown'
        /\ UNCHANGED << pages, pdfDoc, croppingPageInfo, completedCrop >>
        /\ ~isProcessing' /\ ~isRenderingCropPreview' ]_vars

\* A commit has just failed and the dialog is still open on its page.
C20_Witness ==
  /\ toast = "Failed to apply crop."
  /\ CropImageShown /\ completedCrop # Null
  /\ \A i \in DOMAIN pages : pages[i].cropBox = Null

\* C21: Cancel on a dialog that shows its preview closes it, drops the
\* session's page record and the selection made so far, and leaves the
\* page list (order, rotation, crop box, selection flags) and the document
\* as they were.
C21_CancelLeavesPages ==
  [][ (CropImageShown /\ closeCropDialog) =>
        /\ ~isCropping'
        /\ croppingPageInfo' = Null
        /\ completedCrop' = Null
        /\ ~cropError'
        /\ pages' = pages /\ pdfDoc' = pdfDoc ]_vars

\* A dialog was opened, showed its preview and was cancelled: it is closed
\* without an error, nothing is cropped and the page is still selected.
C21_Witness ==
  /\ nEdits = 1 /\ toast = ""
  /\ ~isCropping /\ ~cropError /\ rendering = {}
  /\ croppingPageInfo = Null /\ completedCrop = Null
  /\ isSinglePageSelected
  /\ \A i \in DOMAIN pages : pages[i].cropBox = Null

C23_PagesFrozenWhileCropping ==
  /\ [](isCropping =>
          /\ ~ENABLED deleteSelectedPages
          /\ ~ENABLED rotateSelectedPages(RotateButtonAngle)
          /\ \A select \in BOOLEAN : ~ENABLED selectAllPages(select)
          /\ \A index \in DOMAIN pages, direction \in {"left", "right"} :
               ~ENABLED movePage(index, direction))
  /\ [][ isCropping =>
            \/ pages' = pages
            \/ toast' = "crop applied." /\ applyCrop ]_vars

\* The dialog shows its preview over a list of several pages, one of them
\* selected.
C23_Witness ==
  /\ CropImageShown
  /\ Len(pages) > 1
  /\ areAnyPagesSelected
  /\ ~isProcessing

\* ------------------------------------------------------- staged edits
\* C24: Rotate and a crop commit change page descriptors only: neither
\* step changes the live pdf-lib document pdfDoc or the source file.
C24_EditsAreStagedOnly ==
  [][ (rotateSelectedPages(RotateButtonAngle) \/ applyCrop) =>
        (pdfDoc' = pdfDoc /\ file' = file) ]_vars

\* C25: an edit deselects what it touches: after a delete no page that is
\* left is selected, after a rotate no page that was rotated is selected,
\* after a crop commit the cropped page is not selected, and after a move
\* the page that was moved is not selected.
C25_EditsDeselect ==
  [][ /\ (toast' = "page(s) deleted." /\ deleteSelectedPages) =>
           \A i \in DOMAIN pages' : ~pages'[i].selected
      /\ (toast' = "Selected page(s) rotated" /\ rotateSelectedPages(RotateButtonAngle)) =>
           \A i \in getSelectedCurrentIndices(pages) :
             PageIndexInDoc(Val(pdfDoc).pages, pages[i].id) # 0 =>
               ~pages'[i].selected
      /\ (toast' = "crop applied." /\ applyCrop) =>
           ~pages'[Val(croppingPageInfo).index].selected
      /\ \A index \in DOMAIN pages, direction \in {"left", "right"} :
           movePage(index, direction) =>
             ~pages'[IF direction = "left" THEN index - 1 ELSE index + 1].selected
    ]_vars

\* ------------------------------------------------------------- loading
\* C26: a load that succeeds leaves one descriptor per page of the source,
\* in source order, with ids 0 .. N-1, the size and the rotation of its
\* source page, no crop box and not selected; and it keeps the file.
C26_LoadBuildsDescriptors ==
  [][ \A t \in loading :
        (Parses(t.file) /\ loadPdf(t)) =>
          /\ Len(pages') = PageCount(t.file)
          /\ \A k \in DOMAIN pages' :
               /\ pages'[k].id = k - 1
               /\ pages'[k].width = SrcWidth(t.file, k - 1)
               /\ pages'[k].height = SrcHeight(t.file, k - 1)
               /\ pages'[k].rotation = SrcRotation(t.file, k - 1)
               /\ pages'[k].cropBox = Null
               /\ ~pages'[k].selected
          /\ pdfDoc' # Null /\ Val(pdfDoc').src = t.file
          /\ ~isLoadingPdf' /\ file' = file ]_vars

\* The largest source has just been loaded; not all of its pages are
\* upright or of one width.
C26_Witness ==
  /\ file = 1 /\ loading = {} /\ pdfDoc # Null /\ nEdits = 0
  /\ Len(pages) = MaxPages
  /\ \A k \in DOMAIN pages : pages[k].id = k - 1 /\ ~pages[k].selected
  /\ \E k \in DOMAIN pages : pages[k].rotation # 0
  /\ \E k \in DOMAIN pages : pages[k].width # pages[1].width

\* C27: a load that fails leaves the editor without a document: the page
\* list is empty, pdfDoc is null and the file is reset; and a page list
\* that is shown is never a part of a source: it has all its pages.
C27_FailedLoadResets ==
  /\ [](pages # <<>> =>
          pdfDoc # Null /\ Len(pages) = PageCount(Val(pdfDoc).src))
  /\ [][ \A t \in loading :
          (~Parses(t.file) /\ loadPdf(t)) =>
            /\ toast' = "Failed to load PDF"
            /\ pages' = <<>> /\ pdfDoc' = Null /\ file' = 0 ]_vars

\* ---------------------------------------------------------------- saving
\* C28: a save whose source parses and whose collaborator works skips the
\* descriptors whose page the source does not have and delivers the
\* others, in order.
C28_SaveSkipsMissingPages ==
  [][ (saving # Null /\ Parses(Val(saving).file) /\ saveChangesDone(TRUE)) =>
        LET t == Val(saving)
            kept == PagesInSource(t.file, t.pages)
        IN kept # <<>> =>
             /\ output' # Null
             /\ Val(output').pages = Materialize(t.file, kept) ]_vars

\* C29: a save that can copy no page of its source fails and delivers
\* nothing, and no document without pages is ever delivered.
C29_NoEmptyOutput ==
  /\ [](output # Null => Len(Val(output).pages) > 0)
  /\ [][ \A ok \in BOOLEAN :
          (/\ saving # Null
           /\ PagesInSource(Val(saving).file, Val(saving).pages) = <<>>
           /\ saveChangesDone(ok)) =>
            (output' = Null /\ toast' = "Failed to save changes.") ]_vars

\* A save of three descriptors on a source that parses and has no pages
\* has just failed.
C29_Witness ==
  /\ toast = "Failed to save changes."
  /\ saving = Null /\ ~isProcessing
  /\ file # 0 /\ Parses(file)
  /\ pages # <<>> /\ PagesInSource(file, pages) = <<>>

\* C30: what a save delivers is a function of the file and of the page
\* list the save read, position by position, whatever happened before and
\* whatever state the long-lived pdfDoc is in; and the save leaves pdfDoc
\* and the page list alone.
C30_SaveIsRebuild ==
  [][ \A ok \in BOOLEAN :
        (saving # Null /\ saveChangesDone(ok) /\ output' # Null) =>
          LET t == Val(saving) IN
          /\ Val(output').pages =
               [ k \in DOMAIN t.pages |-> OutputPage(t.file, t.pages[k]) ]
          /\ t.file = file /\ t.pages = pages
          /\ pdfDoc' = pdfDoc /\ pages' = pages ]_vars

\* A save has delivered a list pages were deleted from and moved in, while
\* pdfDoc still has every page of the source, in source order.
C30_Witness ==
  /\ output # Null
  /\ removedIds # {}
  /\ Len(Val(pdfDoc).pages) = PageCount(file)
  /\ Len(pages) >= 2 /\ pages[1].id > pages[2].id
  /\ Val(output).descriptors = pages

\* ------------------------------------------------- reads of the page list
\* C31: a save and a page preview, from the click to their success or
\* failure, leave the page list as it was: no step of either changes it,
\* and the list a pending save started from is still the list.
C31_SaveAndPreviewKeepPages ==
  /\ [](saving # Null => Val(saving).pages = pages)
  /\ [][ (previewing # Null \/ saving # Null) => pages' = pages ]_vars
  /\ [][ (\/ saveChanges
          \/ previewSelectedPage
          \/ \E ok \in BOOLEAN : saveChangesDone(ok)
          \/ \E ok \in BOOLEAN : previewSelectedPageDone(ok)) =>
            pages' = pages ]_vars

\* The preview of a page of a reordered list has just failed.
C31_Witness ==
  /\ toast = "Failed to generate preview"
  /\ previewing = Null /\ ~isProcessing
  /\ isSinglePageSelected
  /\ Len(pages) >= 2 /\ pages[1].id > pages[2].id

\* C32: while a save, a page preview or the rendering of a crop preview
\* is pending, Delete, Rotate, Select All and the arrow buttons are all
\* disabled, and the list a pending save started from is still the list.
C32_NoMutationWhilePending ==
  /\ (saving # Null \/ previewing # Null \/ rendering # {}) =>
       /\ ~ENABLED deleteSelectedPages
       /\ ~ENABLED rotateSelectedPages(RotateButtonAngle)
       /\ \A select \in BOOLEAN : ~ENABLED selectAllPages(select)
       /\ \A index \in DOMAIN pages, direction \in {"left", "right"} :
            ~ENABLED movePage(index, direction)
  /\ saving # Null => Val(saving).pages = pages

\* ------------------------------------------------------ whole deletions
\* C33: after Delete the page list is either the list as it was, with the
\* document as it was, or that list without every selected page, the pages
\* that stay in their order; never a list that lost some of them only.
C33_DeleteAllOrNothing ==
  [][ deleteSelectedPages =>
        \/ pages' = pages /\ pdfDoc' = pdfDoc /\ toast' # "page(s) deleted."
        \/ /\ toast' = "page(s) deleted."
           /\ pages' = SelectSeq(pages, NotSelected)
           /\ Len(pages') = Len(pages) - Cardinality(getSelectedCurrentIndices(pages))
           /\ Ids(pages') \cap getSelectedOriginalIndices(pages) = {} ]_vars

\* Two of three pages are gone from the list after a delete.
C33_Witness ==
  /\ toast = "page(s) deleted."
  /\ Cardinality(removedIds) >= 2
  /\ Len(pages) = PageCount(file) - Cardinality(removedIds)
  /\ \A k \in DOMAIN pages : ~pages[k].selected

\* ------------------------------------------------------ what rotate does
\* C34: a Rotate that reports success adds the angle, modulo 360, to the
\* rotation of every selected descriptor, and leaves the rotation of the
\* others and the order, id, size and crop box of all as they were.
C34_RotateSetsSelected ==
  [][ (toast' = "Selected page(s) rotated" /\ rotateSelectedPages(RotateButtonAngle)) =>
        /\ DOMAIN pages' = DOMAIN pages
        /\ \A i \in DOMAIN pages :
             /\ pages'[i].rotation =
                  IF pages[i].selected
                    THEN (pages[i].rotation + RotateButtonAngle) % 360
                    ELSE pages[i].rotation
             /\ pages'[i].id = pages[i].id
             /\ pages'[i].width = pages[i].width
             /\ pages'[i].height = pages[i].height
             /\ pages'[i].cropBox = pages[i].cropBox ]_vars

\* ----------------------------------------------------- crops do not compound
\* The crop box the selection px stands for on the page as the source file
\* has it: its load-time size and the image rendered from the file.
SourceCropBox(f, originalIndex, px) ==
  NewCropBox(px, [ dataUrl |-> RenderedImage(f, originalIndex),
                   originalWidth |-> SrcWidth(f, originalIndex),
                   originalHeight |-> SrcHeight(f, originalIndex) ])

\* C35: a descriptor keeps the width and height it was loaded with, and a
\* committed crop box is the selection mapped onto that load-time page,
\* whether or not the page had a crop box before: the earlier box is
\* replaced and plays no part in the new one.
C35_CropsDoNotCompound ==
  /\ [](\A i \in DOMAIN pages :
          /\ pages[i].width = SrcWidth(file, pages[i].id)
          /\ pages[i].height = SrcHeight(file, pages[i].id))
  /\ [][ (toast' = "crop applied." /\ applyCrop) =>
           LET info == Val(croppingPageInfo) IN
           /\ pages'[info.index].cropBox =
                SourceCropBox(file, pages[info.index].id, Val(completedCrop))
           /\ pages'[info.index].width = pages[info.index].width
           /\ pages'[info.index].height = pages[info.index].height ]_vars

\* Apply is about to replace the crop box of a page that was cropped before
\* by a different one.
C35_Witness ==
  /\ isCropping /\ croppingPageInfo # Null /\ completedCrop # Null
  /\ Val(croppingPageInfo).index \in DOMAIN pages
  /\ pages[Val(croppingPageInfo).index].cropBox # Null
  /\ ENABLED (/\ applyCrop
              /\ toast' = "crop applied."
              /\ pages'[Val(croppingPageInfo).index].cropBox
                   # pages[Val(croppingPageInfo).index].cropBox)

\* ------------------------------------------------- the target of a session
\* C36: whenever the dialog is open with a preview, the page it records is
\* the one selected page of the list, the page the open session was opened
\* on, and the recorded position holds the recorded id.
C36_ReadyTargetIsSelectedPage ==
  (isCropping /\ croppingPageInfo # Null /\ ~isRenderingCropPreview) =>
    LET info == Val(croppingPageInfo) IN
    /\ isSinglePageSelected
    /\ info.index \in DOMAIN pages
    /\ pages[info.index].selected
    /\ pages[info.index].id = info.originalIndex

\* C37: session data exists only while the dialog is open: whenever
\* isCropping is false, croppingPageInfo is null.
C37_ClosedHasNoSessionData ==
  ~isCropping => croppingPageInfo = Null

\* ------------------------------------------------------ files and sessions
\* C38: once every started load has finished, the page list and the parsed
\* document are those of the file the editor holds, the one accepted last
\* and read by save and rendering: no descriptor has an id outside that
\* file's pages.
C38_PagesBelongToFile ==
  (loading = {} /\ file # 0 /\ pages # <<>>) =>
    /\ pdfDoc # Null /\ Val(pdfDoc).src = file
    /\ \A i \in DOMAIN pages : InSource(file, pages[i])

\* C39: a crop session does not outlive its document.  In SpecCropReload
\* every session is opened on the first document, so once a second file
\* has been accepted no Apply writes to the page list or to the document.
C39_NoCommitAcrossDocuments ==
  [][ (nAccepted >= 2 /\ applyCrop) =>
        pages' = pages /\ pdfDoc' = pdfDoc ]_vars

\* ------------------------------------------------------------- busy flags
\* C40: with collaborators that return, every started load, save, preview
\* and crop rendering finishes, and each busy flag that is set is cleared
\* again, after a success and after a failure; delete, rotate and the crop
\* commit run to their end in one step and leave isProcessing cleared; and
\* no flag is set when nothing is pending, so the editor is never locked
\* for good.
C40_BusyFlagsClear ==
  /\ (isLoadingPdf ~> ~isLoadingPdf)
  /\ (isProcessing ~> ~isProcessing)
  /\ (isRenderingCropPreview ~> ~isRenderingCropPreview)
  /\ (loading # {} ~> loading = {})
  /\ (saving # Null ~> saving = Null)
  /\ (previewing # Null ~> previewing = Null)
  /\ (rendering # {} ~> rendering = {})
  /\ [](/\ loading = {} => ~isLoadingPdf
        /\ (saving = Null /\ previewing = Null) => ~isProcessing
        /\ rendering = {} => ~isRenderingCropPreview)
  /\ [][ (\/ deleteSelectedPages
          \/ rotateSelectedPages(RotateButtonAngle)
          \/ applyCrop) => ~isProcessing' ]_vars

\* A save has failed and the editor is idle again, its panel shown.
C40_Witness ==
  /\ toast = "Failed to save changes."
  /\ ~isProcessing /\ ~isLoadingPdf /\ ~isRenderingCropPreview
  /\ loading = {} /\ saving = Null /\ previewing = Null /\ rendering = {}
  /\ PanelShown /\ ~Busy

====
